---- MODULE Spec2Model ----
(***************************************************************************)
(* Model of the discovery loop of src/src/scraper.py (main, lines 313-398):*)
(* load of the two CSV state files, the ingestion of the *.json documents  *)
(* of ../img/, the deduplication and the two to_csv writes, the sleep, the *)
(* random choice of the next tag and the invocation of InstagramScraper.   *)
(* pandas' CSV type inference, Series membership and drop_duplicates are   *)
(* modelled by what they do on the values of the model.                    *)
(***************************************************************************)
EXTENDS Integers, Sequences, FiniteSets, TLC

\* ------------------------------------------------------------------ bounds
MaxInitDocs == 1      \* documents in ../img/ when the process first starts
MaxDocs     == 2      \* documents ../img/ may hold in all
MaxRestarts == 1      \* restarts of the process after a kill or a crash
MaxSleep    == 1      \* sleep_time values enumerated
MaxVolume   == 12     \* random.randint(1, 12)

\* directory = "../img/" of line 320, the directory INGEST lists
ListedDirectory == "../img/"

\* ------------------------------------------------------------- Python values
\* A value held in all_tags or in the "image" column: a str or an integer
\* (numpy.int64), as pandas.read_csv produces them.
Str(s) == [ty |-> "str", s |-> s, n |-> 0]
PyInt(n) == [ty |-> "int", s |-> "", n |-> n]

\* the texts of the model that read_csv parses as integers
NumericTexts == {"7", "42"}
ParseInt(s) == CASE s = "7" -> 7 [] s = "42" -> 42 [] OTHER -> 0
FormatInt(n) == CASE n = 7 -> "7" [] n = 42 -> "42" [] OTHER -> "0"

\* str(v), also the text to_csv writes for v
PyStr(v) == IF v.ty = "str" THEN v.s ELSE FormatInt(v.n)

\* `x in list`: Python equality, an int never equals a str
PyIn(x, list) == \E i \in 1..Len(list) : list[i] = x

\* ---------------------------------------------------------------- CSV files
\* st: "absent" (no file), "empty" (truncated by open(path, "w"), nothing
\* flushed yet), "ok" (header and rows)
AbsentFile == [st |-> "absent", rows |-> <<>>]
EmptyFile == [st |-> "empty", rows |-> <<>>]
OkFile(rows) == [st |-> "ok", rows |-> rows]

\* dtype inference of read_csv for one column of cells
ReadCsvColumn(cells) ==
  IF cells # <<>> /\ \A i \in 1..Len(cells) : cells[i] \in NumericTexts
  THEN [i \in 1..Len(cells) |-> PyInt(ParseInt(cells[i]))]
  ELSE [i \in 1..Len(cells) |-> Str(cells[i])]

\* pd.read_csv('image_data.csv'): RangeIndex, inferred "image" column
ReadMeta(rows) ==
  LET col == ReadCsvColumn([i \in 1..Len(rows) |-> rows[i].image])
  IN [i \in 1..Len(rows) |-> [idx |-> i - 1, image |-> col[i], likes |-> rows[i].likes]]

\* list(pd.read_csv('tags.csv')['cycling_tags'])
ReadTags(rows) == ReadCsvColumn(rows)

\* meta.to_csv(..., index=False)
MetaToCsv(m) == [i \in 1..Len(m) |-> [image |-> PyStr(m[i].image), likes |-> m[i].likes]]

\* pd.DataFrame(data=all_tags, columns=["cycling_tags"]).to_csv(..., index=False)
TagsToCsv(t) == [i \in 1..Len(t) |-> PyStr(t[i])]

\* ------------------------------------------------------------- the DataFrame
\* `key in series` tests the index labels of the Series, not its values
SeriesContains(key, m) == \E i \in 1..Len(m) : PyInt(m[i].idx) = key

\* pd.concat([meta, temp], ignore_index=True)
Concat(m, image, likes) ==
  LET all == Append(m, [idx |-> 0, image |-> image, likes |-> likes])
  IN [i \in 1..Len(all) |-> [all[i] EXCEPT !.idx = i - 1]]

RECURSIVE KeepRows(_, _, _)
KeepRows(m, keep, i) ==
  IF i > Len(m) THEN <<>>
  ELSE IF i \in keep THEN <<m[i]>> \o KeepRows(m, keep, i + 1)
  ELSE KeepRows(m, keep, i + 1)

\* variant: keep="last"
DropDuplicates_KeepLast(m) ==
  KeepRows(m, {i \in 1..Len(m) : \A j \in (i + 1)..Len(m) : m[j].image # m[i].image}, 1)

\* meta.drop_duplicates(subset=["image"]): keep="first", labels kept
DropDuplicates(m) ==
  KeepRows(m, {i \in 1..Len(m) : \A j \in 1..(i - 1) : m[j].image # m[i].image}, 1)

\* ------------------------------------------------------------ display URLs
\* A URL is a sequence of tokens; split(sep) cuts at the tokens equal to sep.
RECURSIVE Join(_)
Join(toks) == IF toks = <<>> THEN "" ELSE toks[1] \o Join(Tail(toks))

\* url.split(sep)[0]
SplitFirst(toks, sep) ==
  LET hits == {i \in 1..Len(toks) : toks[i] = sep}
  IN IF hits = {} THEN toks
     ELSE SubSeq(toks, 1, (CHOOSE i \in hits : \A j \in hits : i <= j) - 1)

\* url.split(sep)[-1]
SplitLast(toks, sep) ==
  LET hits == {i \in 1..Len(toks) : toks[i] = sep}
  IN IF hits = {} THEN toks
     ELSE SubSeq(toks, (CHOOSE i \in hits : \A j \in hits : i >= j) + 1, Len(toks))

\* lines 341-343
ImageName(url) == Join(SplitLast(SplitLast(SplitFirst(url, ".jpg?"), "e35"), "/"))

\* ---------------------------------------------------------------- documents
Url(name) == <<"https:", "/", "/", "cdn", "/", name, ".jpg?", "e35", "=1">>
UrlSized(name) == <<"https:", "/", "/", "cdn", "/", "e35", "/", name, ".jpg?", "nc", "=1">>

\* a media entry; has_url / has_likes FALSE: the key is missing
Entry(tags, url, likes) ==
  [tags |-> tags, has_url |-> TRUE, url |-> url, has_likes |-> TRUE, likes |-> likes]
TagList(l) == [k |-> "list", l |-> l]
NoTags == [k |-> "absent", l |-> <<>>]
\* "tags": null (iterating it raises TypeError) and "tags": "<text>" (a str,
\* which the for loop of line 330 iterates character by character)
NullTags == [k |-> "null", l |-> <<>>]
StringTags(chars) == [k |-> "string", l |-> chars]

\* kind: "other" (not *.json), "badjson" (json.load raises), "nokey" (no
\* "GraphImages"), "json" (a list of media entries)
Doc(kind, images) == [kind |-> kind, images |-> images]

DocScenario ==
  Doc("json", << Entry(TagList(<<"bike", "road">>), Url("x123"), 1),
                 Entry(NoTags, Url("y456"), 2) >>)
DocRepeat ==
  Doc("json", << Entry(TagList(<<"road", "7">>), UrlSized("x123"), 2) >>)
DocNumeric ==
  Doc("json", << Entry(TagList(<<"7">>), Url("42"), 1) >>)
DocNoUrl ==
  Doc("json", << [Entry(TagList(<<"bike">>), <<>>, 1) EXCEPT !.has_url = FALSE],
                 Entry(TagList(<<"road">>), Url("y456"), 1) >>)
DocNoLikes ==
  Doc("json", << [Entry(NoTags, Url("y456"), 0) EXCEPT !.has_likes = FALSE] >>)
DocMalformedTags ==
  Doc("json", << Entry(NullTags, Url("x123"), 1),
                 Entry(StringTags(<<"b", "k">>), Url("y456"), 2) >>)
DocBadJson == Doc("badjson", <<>>)
DocNoImages == Doc("nokey", <<>>)
DocOther == Doc("other", <<>>)

Catalogue ==
  {DocScenario, DocRepeat, DocNumeric, DocNoUrl, DocNoLikes, DocMalformedTags,
   DocBadJson, DocNoImages, DocOther}

\* what the fetch client leaves in ../img/: metadata documents and media files
FetchDocs == {DocRepeat, DocNumeric, DocOther}

\* the state files a first start may find
InitImageFiles ==
  {AbsentFile, OkFile(<<>>), OkFile(<<[image |-> "x123", likes |-> 2]>>)}
InitTagFiles == {AbsentFile, OkFile(<<>>), OkFile(<<"bike">>), OkFile(<<"7">>)}

\* args.tag / args.location / args.search_location as parsed (lines 272-274
\* reject tag together with location); login: args.login_user and
\* args.login_pass both given (lines 251-255 reject one without the other)
ArgModes ==
  {[tag |-> TRUE, location |-> FALSE, search_location |-> FALSE],
   [tag |-> FALSE, location |-> TRUE, search_location |-> FALSE],
   [tag |-> FALSE, location |-> FALSE, search_location |-> TRUE],
   [tag |-> FALSE, location |-> FALSE, search_location |-> FALSE]}

\* the authentications a mode is started with. Lines 372-375 test the
\* credentials and lines 388-398 the mode, and the two tests share no
\* variable: every mode and both authentications are started, the tag mode
\* with both
Logins(mode) == IF mode.tag THEN BOOLEAN ELSE {mode.search_location}

\* the values lines 363-367 assign to args.maximum, args.usernames and
\* args.destination in a cycle. Every cycle assigns them before line 370
\* reads them, so the values a previous cycle left there are never read:
\* the model holds them from SELECT to INVOKE only.
NotChosen == [usernames |-> <<>>, maximum |-> 0, destination |-> ""]

\* ---------------------------------------------------------------- the state
VARIABLES
  pc,          \* position of the process in main
  args,        \* the argparse namespace: tag, location, search_location, login
  chosen,      \* args.usernames, args.maximum, args.destination of this cycle
  all_tags,    \* Tag Registry (line 315)
  meta,        \* Media Inventory (line 314)
  fi,          \* position of the for loop of line 321 in the listing
  directory,   \* the files of ../img/, in os.listdir order
  image_file,  \* image_data.csv
  tags_file,   \* tags.csv
  ckpt,        \* the two files as the last completed PERSIST left them
  err,         \* where the last step raised, "none" if it did not
  restarts,    \* number of restarts so far
  auth         \* the authentication the scraper of line 370 went through


vars == <<pc, args, chosen, all_tags, meta, fi, directory, image_file, tags_file,
          ckpt, err, restarts, auth>>

Alive == pc \notin {"killed", "terminated"}

\* os.listdir names every file of the directory once
DirsUpTo(n) ==
  {dir \in UNION {[1..k -> Catalogue] : k \in 0..n} :
     \A i, j \in 1..Len(dir) : dir[i] = dir[j] => i = j}

Init ==
  /\ pc = "start"
  /\ \E mode \in ArgModes : \E login \in Logins(mode) :
        args = [tag |-> mode.tag, location |-> mode.location,
                search_location |-> mode.search_location, login |-> login]
  /\ chosen = NotChosen
  /\ all_tags = <<>>
  /\ meta = <<>>
  /\ fi = 1
  /\ directory \in DirsUpTo(MaxInitDocs)
  /\ image_file \in InitImageFiles
  /\ tags_file \in InitTagFiles
  /\ ckpt = [image |-> image_file, tags |-> tags_file]
  /\ err = "none"
  /\ restarts = 0
  /\ auth = "none"

\* an exception nothing catches ends the process: its memory is gone
Dies(site) ==
  /\ pc' = "terminated"
  /\ err' = site
  /\ chosen' = NotChosen
  /\ all_tags' = <<>>
  /\ meta' = <<>>
  /\ fi' = 1
  /\ auth' = "none"

\* --------------------------------------------------------------- lines 313-315
\* read_csv raises when the file is missing or has no header
Load ==
  /\ pc = "start"
  /\ IF image_file.st # "ok" \/ tags_file.st # "ok"
     THEN Dies("load")
     ELSE /\ meta' = ReadMeta(image_file.rows)
          /\ all_tags' = ReadTags(tags_file.rows)
          /\ pc' = "ingest"
          /\ err' = "none"
          /\ UNCHANGED <<chosen, fi, auth>>
  /\ UNCHANGED <<args, directory, image_file, tags_file, ckpt, restarts>>

\* --------------------------------------------------------------- lines 321-351
\* variant: the new tag is put in front of the registry
AppendNewTag_Prepend(tags, tag) ==
  IF ~PyIn(Str(tag), tags) THEN <<Str(PyStr(Str(tag)))>> \o tags ELSE tags

\* lines 331-337
AppendNewTag(tags, tag) ==
  IF ~PyIn(Str(tag), tags) THEN Append(tags, Str(PyStr(Str(tag)))) ELSE tags

\* variant: the for loop of line 330 stops after the first tag
IngestTags_FirstOnly(tags, l, i) ==
  IF i > Len(l) THEN tags ELSE AppendNewTag(tags, l[i])

RECURSIVE IngestTags(_, _, _)
IngestTags(tags, l, i) ==
  IF i > Len(l) THEN tags ELSE IngestTags(AppendNewTag(tags, l[i]), l, i + 1)

\* lines 329-339: a missing "tags" key or a value that cannot be iterated
\* raises inside the try and is caught; a list or a str is iterated
ImageTags(tags, image) ==
  IF image.tags.k \in {"list", "string"} THEN IngestTags(tags, image.tags.l, 1)
  ELSE tags

\* lines 328-351 for one image; raised: a KeyError left the loop
IngestImage(s, image) ==
  LET t1 == ImageTags(s.all_tags, image)
      image_name == Str(ImageName(image.url))
  IN IF ~image.has_url
     THEN [all_tags |-> t1, meta |-> s.meta, raised |-> TRUE]
     ELSE IF SeriesContains(image_name, s.meta)
     THEN [all_tags |-> t1, meta |-> s.meta, raised |-> FALSE]
     ELSE IF ~image.has_likes
     THEN [all_tags |-> t1, meta |-> s.meta, raised |-> TRUE]
     ELSE [all_tags |-> t1, meta |-> Concat(s.meta, image_name, image.likes),
           raised |-> FALSE]

RECURSIVE IngestImages(_, _, _)
IngestImages(s, images, i) ==
  IF i > Len(images) \/ s.raised THEN s
  ELSE IngestImages(IngestImage(s, images[i]), images, i + 1)

\* lines 322-351 for one file of the listing
IngestDoc(s, doc) ==
  CASE doc.kind = "other" -> s
    [] doc.kind = "badjson" -> [s EXCEPT !.raised = TRUE]
    [] doc.kind = "nokey" -> [s EXCEPT !.raised = TRUE]
    [] OTHER -> IngestImages(s, doc.images, 1)

RECURSIVE IngestDocs(_, _, _)
IngestDocs(s, docs, i) ==
  IF i > Len(docs) \/ s.raised THEN s
  ELSE IngestDocs(IngestDoc(s, docs[i]), docs, i + 1)

\* one iteration of the for loop of line 321
IngestFile ==
  /\ pc = "ingest"
  /\ fi <= Len(directory)
  /\ LET r == IngestDoc([all_tags |-> all_tags, meta |-> meta, raised |-> FALSE],
                        directory[fi])
     IN IF r.raised
        THEN Dies("ingest")
        ELSE /\ pc' = "ingest"
             /\ err' = "none"
             /\ all_tags' = r.all_tags
             /\ meta' = r.meta
             /\ fi' = fi + 1
             /\ UNCHANGED <<chosen, auth>>
  /\ UNCHANGED <<args, directory, image_file, tags_file, ckpt, restarts>>

\* variant: the files that were ingested are removed from ../img/
IngestEnd_Deletes ==
  /\ pc = "ingest"
  /\ fi > Len(directory)
  /\ pc' = "persist"
  /\ fi' = 1
  /\ err' = "none"
  /\ directory' = <<>>
  /\ UNCHANGED <<auth, args, chosen, all_tags, meta, image_file, tags_file,
                 ckpt, restarts>>

\* the for loop of line 321 is exhausted
IngestEnd ==
  /\ pc = "ingest"
  /\ fi > Len(directory)
  /\ pc' = "persist"
  /\ fi' = 1
  /\ err' = "none"
  /\ UNCHANGED <<auth, args, chosen, all_tags, meta, directory, image_file, tags_file,
                 ckpt, restarts>>

\* --------------------------------------------------------------- lines 353-357
\* line 353 and the open(path, "w") of line 354
PersistMetaOpen ==
  /\ pc = "persist"
  /\ meta' = DropDuplicates(meta)
  /\ image_file' = EmptyFile
  /\ pc' = "meta_open"
  /\ err' = "none"
  /\ UNCHANGED <<auth, args, chosen, all_tags, fi, directory, tags_file, ckpt, restarts>>

\* line 354: the rows reach the file
PersistMetaWrite ==
  /\ pc = "meta_open"
  /\ image_file' = OkFile(MetaToCsv(meta))
  /\ pc' = "persist_tags"
  /\ err' = "none"
  /\ UNCHANGED <<auth, args, chosen, all_tags, meta, fi, directory, tags_file, ckpt, restarts>>

\* the open(path, "w") of lines 355-357
PersistTagsOpen ==
  /\ pc = "persist_tags"
  /\ tags_file' = EmptyFile
  /\ pc' = "tags_open"
  /\ err' = "none"
  /\ UNCHANGED <<auth, args, chosen, all_tags, meta, fi, directory, image_file, ckpt, restarts>>

\* lines 355-357: the rows reach the file
PersistTagsWrite ==
  /\ pc = "tags_open"
  /\ tags_file' = OkFile(TagsToCsv(all_tags))
  /\ ckpt' = [image |-> image_file, tags |-> tags_file']
  /\ pc' = "schedule"
  /\ err' = "none"
  /\ UNCHANGED <<auth, args, chosen, all_tags, meta, fi, directory, image_file, restarts>>

\* --------------------------------------------------------------- lines 359-361
Schedule ==
  /\ pc = "schedule"
  /\ \E sleep_time \in 0..MaxSleep : pc' = "select"
  /\ err' = "none"
  /\ UNCHANGED <<auth, args, chosen, all_tags, meta, fi, directory, image_file, tags_file,
                 ckpt, restarts>>

\* --------------------------------------------------------------- lines 363-368
\* np.random.choice first makes an array of the list: integers stay integers
\* when every element is one, otherwise every element becomes its text
NpArray(list) ==
  IF \A i \in 1..Len(list) : list[i].ty = "int" THEN list
  ELSE [i \in 1..Len(list) |-> Str(PyStr(list[i]))]

\* np.random.choice raises ValueError on an empty list, after line 363
Select ==
  /\ pc = "select"
  /\ \E maximum \in 1..MaxVolume :
        IF all_tags = <<>>
        THEN Dies("select")
        ELSE \E k \in 1..Len(all_tags) :
               /\ chosen' = [usernames |-> <<NpArray(all_tags)[k]>>, maximum |-> maximum,
                             destination |-> "../img/"]
               /\ pc' = "invoke"
               /\ err' = "none"
               /\ UNCHANGED <<all_tags, meta, fi, auth>>
  /\ UNCHANGED <<args, directory, image_file, tags_file, ckpt, restarts>>

\* --------------------------------------------------------------- lines 370-398
\* the files of ../img/ after the fetch client ran: unchanged, or one more
\* that was not there, anywhere in the listing
AfterFetch(dir) ==
  {dir} \cup
  (IF Len(dir) < MaxDocs
   THEN {SubSeq(dir, 1, p) \o <<d>> \o SubSeq(dir, p + 1, Len(dir)) :
           p \in 0..Len(dir), d \in FetchDocs \ {dir[i] : i \in 1..Len(dir)}}
   ELSE {})

\* variant: the scraper always authenticates as guest
AuthMode_Guest(a) == "guest"

\* lines 372-375
AuthMode(a) == IF a.login THEN "login" ELSE "guest"

\* the except of lines 389-392 covers scrape_hashtag only
ScrapeCaught(a) == a.tag

Invoke ==
  /\ pc = "invoke"
  /\ \E outcome \in {"construct", "auth", "scrape", "none"} :
        CASE outcome \in {"construct", "auth"} ->
               /\ Dies(outcome)
               /\ directory' = directory
          [] outcome = "scrape" /\ ~ScrapeCaught(args) ->
               /\ Dies(outcome)
               /\ directory' \in AfterFetch(directory)
          [] OTHER ->
               /\ pc' = "ingest"
               /\ err' = outcome
               /\ directory' \in AfterFetch(directory)
               /\ chosen' = NotChosen
               /\ auth' = AuthMode(args)
               /\ UNCHANGED <<all_tags, meta, fi>>
  /\ UNCHANGED <<args, image_file, tags_file, ckpt, restarts>>

\* ------------------------------------------------------- the process's life
\* an external signal ends the process at any point
Kill ==
  /\ Alive
  /\ pc' = "killed"
  /\ err' = "none"
  /\ auth' = "none"
  /\ chosen' = NotChosen
  /\ all_tags' = <<>>
  /\ meta' = <<>>
  /\ fi' = 1
  /\ UNCHANGED <<args, directory, image_file, tags_file, ckpt, restarts>>

\* the operator starts the program again with the same command line
Restart ==
  /\ ~Alive
  /\ restarts < MaxRestarts
  /\ restarts' = restarts + 1
  /\ pc' = "start"
  /\ chosen' = NotChosen
  /\ all_tags' = <<>>
  /\ meta' = <<>>
  /\ fi' = 1
  /\ err' = "none"
  /\ auth' = "none"
  /\ UNCHANGED <<args, directory, image_file, tags_file, ckpt>>

Next ==
  \/ Load
  \/ IngestFile
  \/ IngestEnd
  \/ PersistMetaOpen
  \/ PersistMetaWrite
  \/ PersistTagsOpen
  \/ PersistTagsWrite
  \/ Schedule
  \/ Select
  \/ Invoke
  \/ Kill
  \/ Restart

Spec == Init /\ [][Next]_vars

\* ------------------------------------------------------------------ helpers
IsPrefix(a, b) == Len(a) <= Len(b) /\ \A i \in 1..Len(a) : a[i] = b[i]

\* the tags of the well-formed tag lists of the documents of a directory
TagsOfDoc(doc) ==
  IF doc.kind # "json" THEN {}
  ELSE UNION {IF doc.images[e].tags.k = "list"
              THEN {doc.images[e].tags.l[t] : t \in 1..Len(doc.images[e].tags.l)}
              ELSE {} : e \in 1..Len(doc.images)}
TagsOfDirectory(dir) == UNION {TagsOfDoc(dir[k]) : k \in 1..Len(dir)}

\* popularity count of the first / the last row of m holding image
FirstLikes(m, image) ==
  m[CHOOSE i \in 1..Len(m) :
      m[i].image = image /\ \A j \in 1..(i - 1) : m[j].image # image].likes
LastLikes(m, image) ==
  m[CHOOSE i \in 1..Len(m) :
      m[i].image = image /\ \A j \in (i + 1)..Len(m) : m[j].image # image].likes

\* the step of line 353
DedupStep == pc = "persist" /\ pc' = "meta_open"

TypeOK ==
  /\ pc \in {"start", "ingest", "persist", "meta_open", "persist_tags",
              "tags_open", "schedule", "select", "invoke", "killed", "terminated"}
  /\ fi \in 1..(MaxDocs + 1)
  /\ Len(directory) <= MaxDocs
  /\ restarts \in 0..MaxRestarts
  /\ chosen.maximum \in 0..MaxVolume

\* ------------------------------------------------------------------- claims

\* C1: in every scrape mode, when the fetch client's scrape operation raises
\* the loop goes on to the next cycle's INGEST with the Tag Registry and the
\* Media Inventory unchanged. Fails: only scrape_hashtag is inside a try.
C1_ScrapeFailureContained ==
  [][(pc = "invoke" /\ err' = "scrape")
       => (pc' = "ingest" /\ all_tags' = all_tags /\ meta' = meta)]_vars

\* C2: with an empty Tag Registry at SELECT the selection does not raise, the
\* fetch is skipped and the loop goes to the next cycle. Fails:
\* np.random.choice raises on an empty list and nothing catches it.
C2_EmptyRegistrySkipsFetch ==
  [][(pc = "select" /\ all_tags = <<>> /\ pc' # "killed")
       => (pc' = "ingest" /\ err' = "none")]_vars

\* C3: in every reachable state the in-memory Media Inventory holds at most
\* one record per identifier. Fails: line 346 tests the index of the Series,
\* so every entry is inserted and the duplicates stay until line 353.
C3_OneRecordPerIdentifier ==
  \A i, j \in 1..Len(meta) : i # j => meta[i].image # meta[j].image

\* C4: in every reachable state, also right after a restart loaded tags.csv,
\* the Tag Registry holds no tag twice. Fails: a registry of numeric tags is
\* reloaded as integers, which line 331 does not find equal to the text.
C4_NoDuplicateTags ==
  \A i, j \in 1..Len(all_tags) : i # j => all_tags[i] # all_tags[j]

\* C5: while the process lives, every step leaves the Tag Registry as it was
\* or extends it at its end: the registry before is a prefix of the registry
\* after.
C5_RegistryGrowsAtEnd ==
  [][(Alive /\ Alive') => IsPrefix(all_tags, all_tags')]_vars

\* C5 witness: ingestion has extended a registry that was loaded non-empty.
C5_Witness ==
  /\ pc = "persist"
  /\ tags_file.st = "ok"
  /\ Len(tags_file.rows) >= 1
  /\ Len(all_tags) > Len(tags_file.rows)

\* C6: once the ingestor has run over the directory, running it again over
\* the same directory (no deduplication in between) leaves the Tag Registry
\* and the Media Inventory as they are. Fails for the inventory: every entry
\* is inserted again (the test of line 346, see C3).
C6_IngestionIdempotent ==
  pc = "persist" =>
    LET again == IngestDocs([all_tags |-> all_tags, meta |-> meta, raised |-> FALSE],
                            directory, 1)
    IN /\ ~again.raised
       /\ again.all_tags = all_tags
       /\ again.meta = meta

\* C7: no document and no media entry makes the INGEST step end the loop:
\* every step taken during INGEST stays in INGEST or moves on to PERSIST.
\* Fails: json.load and the key lookups of lines 326-348 are outside any try.
C7_MalformedInputSkipped ==
  [][(pc = "ingest" /\ pc' # "killed") => pc' \in {"ingest", "persist"}]_vars

\* the order of the steps of a cycle
StepOrder ==
  /\ pc' = "persist" => pc = "ingest"
  /\ pc' = "meta_open" => pc = "persist"
  /\ pc' = "persist_tags" => pc = "meta_open"
  /\ pc' = "tags_open" => pc = "persist_tags"
  /\ pc' = "schedule" => pc = "tags_open"
  /\ pc' = "select" => pc = "schedule"
  /\ pc' = "invoke" => pc = "select"
  /\ pc' = "ingest" => pc \in {"start", "ingest", "invoke"}

\* what holds when the target is drawn and when it is used
SelectsAfterPersist ==
  pc \in {"select", "invoke"} =>
    /\ fi = 1
    /\ image_file = OkFile(MetaToCsv(meta))
    /\ tags_file = OkFile(TagsToCsv(all_tags))
    /\ \A t \in TagsOfDirectory(directory) : PyIn(Str(t), all_tags)

\* C8: the steps of a cycle come in the order INGEST, PERSIST, SCHEDULE,
\* SELECT, INVOKE; when a target is drawn the ingestion is complete, both
\* state files hold what is in memory, and the registry holds every tag of
\* every document of the directory.
C8_SelectAfterIngestAndPersist ==
  [][StepOrder]_vars /\ []SelectsAfterPersist

\* C8 witness: a target was drawn from a registry that holds tags ingested
\* from a document in this process.
C8_Witness ==
  /\ pc = "invoke"
  /\ TagsOfDirectory(directory) # {}
  /\ Len(all_tags) >= 2
  /\ chosen.usernames[1] = all_tags[Len(all_tags)]

C10_FilesAreLastCheckpoint ==
  pc = "killed" => (image_file = ckpt.image /\ tags_file = ckpt.tags)

\* the (identifier, popularity count) records of an inventory table
Records(m) == {[image |-> m[i].image, likes |-> m[i].likes] : i \in 1..Len(m)}

\* C11: at the end of PERSIST, what a restarted process loads from the two
\* files equals the state in memory: the same records, the same tags in the
\* same order. Fails: a column of numeric texts is loaded as integers.
C11_RoundTrip ==
  pc = "schedule" =>
    /\ Records(ReadMeta(image_file.rows)) = Records(meta)
    /\ ReadTags(tags_file.rows) = all_tags

\* C12: a process that starts with the inventory file or the tag file absent
\* enters its first INGEST with the structure of the absent file empty.
\* Fails: read_csv raises on a missing file and nothing catches it.
C12_StartsWithoutState ==
  [][(pc = "start" /\ pc' # "killed"
        /\ (image_file.st = "absent" \/ tags_file.st = "absent"))
       => /\ pc' = "ingest"
          /\ image_file.st = "absent" => meta' = <<>>
          /\ tags_file.st = "absent" => all_tags' = <<>>]_vars

\* the tags of the well-formed tag lists of a directory, in scan order
EntryTagList(image) == IF image.tags.k = "list" THEN image.tags.l ELSE <<>>

RECURSIVE DocTagList(_, _)
DocTagList(doc, e) ==
  IF doc.kind # "json" \/ e > Len(doc.images) THEN <<>>
  ELSE EntryTagList(doc.images[e]) \o DocTagList(doc, e + 1)

RECURSIVE DirTagList(_, _)
DirTagList(dir, k) ==
  IF k > Len(dir) THEN <<>> ELSE DocTagList(dir[k], 1) \o DirTagList(dir, k + 1)

\* reg followed by the tags of flat it does not hold, each once, as first met
RECURSIVE AddFirstSeen(_, _, _)
AddFirstSeen(reg, flat, i) ==
  IF i > Len(flat) THEN reg
  ELSE AddFirstSeen(IF PyIn(Str(flat[i]), reg) THEN reg ELSE Append(reg, Str(flat[i])),
                    flat, i + 1)

\* the media entries of the documents of a directory
EntriesOf(dir) ==
  UNION {{dir[k].images[e] : e \in 1..Len(dir[k].images)} :
           k \in {k \in 1..Len(dir) : dir[k].kind = "json"}}

\* C13: once INGEST is over and the inventory is written, every media entry
\* of every document has a record for its identifier, with or without a tag
\* list; the registry is the registry the cycle began with (the one of
\* tags.csv) followed by the new tags of the well-formed tag lists in
\* first-seen order, so an absent or malformed tag list adds nothing.
\* Fails: a tag list that is a str is iterated and its characters are added.
C13_RecordsAndTagsOfEntries ==
  pc = "persist_tags" =>
    LET old == SubSeq(all_tags, 1, Len(tags_file.rows))
    IN /\ \A image \in EntriesOf(directory) :
             \E i \in 1..Len(meta) : meta[i].image = Str(ImageName(image.url))
       /\ Len(tags_file.rows) <= Len(all_tags)
       /\ TagsToCsv(old) = tags_file.rows
       /\ all_tags = AddFirstSeen(old, DirTagList(directory, 1), 1)

\* C14: at INVOKE the configuration given to the fetch client holds exactly
\* one scrape target, which is an element of the Tag Registry as PERSIST left
\* it, a maximum in 1..12, and as destination the directory INGEST lists.
\* Fails for the target: np.random.choice returns the text of an integer tag
\* when the registry, reloaded as integers (C11), has since taken a text tag.
C14_InvokeConfiguration ==
  pc = "invoke" =>
    /\ Len(chosen.usernames) = 1
    /\ PyIn(chosen.usernames[1], all_tags)
    /\ tags_file = OkFile(TagsToCsv(all_tags))
    /\ chosen.maximum \in 1..12
    /\ chosen.destination = ListedDirectory

\* C15: when the construction of the fetch client or its authentication
\* raises, the loop goes on to the next INGEST. Fails: lines 370-375 are
\* outside any try.
C15_ClientFailureContained ==
  [][(pc = "invoke" /\ err' \in {"construct", "auth"}) => pc' = "ingest"]_vars

\* C16: the authentication is the same in every cycle of a process: it is
\* the one with credentials exactly when user and password were both given
\* at the start, and no step changes the arguments that decide it.
C16_SameAuthenticationEveryCycle ==
  /\ [](auth # "none" => (auth = "login" <=> args.login))
  /\ [][(auth # "none" /\ auth' # "none") => auth' = auth]_vars
  /\ [][args' = args]_vars

\* C16 witness: a process that authenticated with credentials in an earlier
\* cycle is about to build its next scraper.
C16_Witness == pc = "invoke" /\ auth = "login" /\ args.login

\* b is a with one more file somewhere in the listing
IsInsertion(a, b) ==
  /\ Len(b) = Len(a) + 1
  /\ \E p \in 1..Len(b) : a = SubSeq(b, 1, p - 1) \o SubSeq(b, p + 1, Len(b))

\* C17: the files of ../img/ and their content change only in the INVOKE
\* step, where the fetch client adds a file: INGEST, PERSIST, SCHEDULE and
\* SELECT leave the directory as it is.
C17_DirectoryOnlyGrowsAtInvoke ==
  [][directory' # directory => (pc = "invoke" /\ IsInsertion(directory, directory'))]_vars

\* C17 witness: INGEST has run over a directory the fetch client added to.
C17_Witness == pc = "persist" /\ Len(directory) > MaxInitDocs

====
